---- MODULE Spec2Model ----
(***************************************************************************)
(* Model of the estadillo (daily roster) engine of atcapp:                 *)
(*   - ingestion of one controller's periods (carga_estadillo.py),         *)
(*   - identifica_grupos, _genera_horas_de_inicio, _es_activo and          *)
(*     ColorManager (estadillos.py).                                       *)
(* Instants are minutes on the UTC scale, counted from local midnight of   *)
(* the roster date.  Sectors and controllers are numbered; sector 0 is     *)
(* the NULL id_sector of a rest period.                                    *)
(***************************************************************************)
EXTENDS Integers, Sequences, FiniteSets, TLC

\* ------------------------------------------------------------------ bounds
MaxATC == 3
MaxSector == 2
NumHoras == 2
MaxPeriodos == 4
MaxNow == 4
MaxColorSector == 22

\* ------------------------------------------------------- program constants
\* timedelta.seconds lies in 0 .. 86399: in minutes, differences wrap at 1440
MinutosDia == 1440
\* Europe/Madrid in summer time: local = UTC + 120 minutes
DesfaseUTC == 120
\* "15:00" and "22:30" local, the closing times of guardar_periodos
FinMananaLocal == 900
FinTardeLocal == 1350

VARIABLES fase, sectores_db, periodos, n_atc, grupos, cabecera,
          clasif, cm, color_res, primer_color,
          llamadas, reloj, estadillos_db, atcs_db, servicios, subida,
          color_per

\* the presentation calls in progress and the last reading of the clock
vars_pres == <<llamadas, reloj>>

\* the other tables of the database, and the record of the last upload
vars_carga == <<estadillos_db, atcs_db, servicios, subida>>

vars == <<fase, sectores_db, periodos, n_atc, grupos, cabecera,
          clasif, cm, color_res, primer_color,
          llamadas, reloj, estadillos_db, atcs_db, servicios, subida,
          color_per>>

ATCs == 1..MaxATC
Sectores == 1..MaxSector

\* ------------------------------------------------------------ small helpers
RECURSIVE SumSeq(_)
SumSeq(s) == IF s = <<>> THEN 0 ELSE Head(s) + SumSeq(Tail(s))

Rango(s) == {s[i] : i \in DOMAIN s}

Ultimo(s) == s[Len(s)]

\* timedelta(minutes = d).seconds // 60
segundos_div_60(d) == d % MinutosDia

\* ------------------------------------------------------------------ ingestion
\* The start times a roster document can carry, in local minutes of the day.
HorasTabla == <<450, 675, 900, 1125>>
HorasLocales == {HorasTabla[k] : k \in 1..NumHoras}

\* string_to_utc_datetime: local wall clock time of the roster date to UTC
string_to_utc_datetime(local) == local - DesfaseUTC

\* A label of the roster document, split at "-":
\* <<"DESCANSO">>, <<"CAS">>, <<"E", s>>, <<"P", s>>
Funciones == {<<"DESCANSO">>} \cup {<<r, s>> : r \in {"E", "P"}, s \in Sectores}

\* The sector name "CAS" of the special label CAS
SectorCAS == MaxSector + 1

\* extrae_actividad_y_sector; a label is kept as the parts that split("-")
\* gives.  error is TRUE where the code raises ValueError, and mensaje is the
\* label that the message of the error names
extrae_actividad_y_sector(funcion) ==
    IF funcion = <<"CAS">>
    THEN [error |-> FALSE, mensaje |-> <<>>, actividad |-> "CAS",
          sector |-> SectorCAS]
    ELSE IF Len(funcion) # 2
         THEN [error |-> TRUE, mensaje |-> funcion, actividad |-> "", sector |-> 0]
         ELSE [error |-> FALSE, mensaje |-> <<>>, actividad |-> funcion[1],
               sector |-> funcion[2]]

\* calcula_horas_inicio_y_fin: the end of a period is the start of the next
\* one; the last one ends at the closing time of its half of the day
calcula_horas_inicio_y_fin(textos) ==
    [i \in DOMAIN textos |->
        LET hora_inicio == string_to_utc_datetime(textos[i].hora_inicio)
            fin_manana == string_to_utc_datetime(FinMananaLocal)
            fin_tarde == string_to_utc_datetime(FinTardeLocal)
        IN  <<hora_inicio,
              IF i + 1 <= Len(textos)
              THEN string_to_utc_datetime(textos[i + 1].hora_inicio)
              ELSE IF hora_inicio < fin_manana THEN fin_manana ELSE fin_tarde>>]

\* mutant: a label that cannot be split is skipped like an unknown sector
RECURSIVE guardar_periodos_silencioso(_, _, _, _, _)
guardar_periodos_silencioso(user, textos, i, sects, filas) ==
    IF i > Len(textos) THEN [error |-> FALSE, mensaje |-> <<>>, filas |-> filas]
    ELSE LET horas == calcula_horas_inicio_y_fin(textos)
             descanso == textos[i].funcion = <<"DESCANSO">>
             ex == extrae_actividad_y_sector(textos[i].funcion)
             fila == [id |-> Len(filas) + 1,
                      controlador |-> user,
                      sector |-> IF descanso THEN 0 ELSE ex.sector,
                      hora_inicio |-> horas[i][1],
                      hora_fin |-> horas[i][2],
                      actividad |-> IF descanso THEN "D" ELSE ex.actividad]
         IN  IF ~descanso /\ (ex.error \/ ex.sector \notin sects)
             THEN guardar_periodos_silencioso(user, textos, i + 1, sects, filas)
             ELSE guardar_periodos_silencioso(user, textos, i + 1, sects,
                                              Append(filas, fila))

\* guardar_periodos: the table of periods with the rows of one controller
\* added.  A labelled period whose sector is not in the sector table is
\* skipped; the ValueError of extrae_actividad_y_sector is not caught
\* (error, with the label it names in mensaje).
RECURSIVE guardar_periodos(_, _, _, _, _)
guardar_periodos(user, textos, i, sects, filas) ==
    IF i > Len(textos) THEN [error |-> FALSE, mensaje |-> <<>>, filas |-> filas]
    ELSE LET horas == calcula_horas_inicio_y_fin(textos)
             descanso == textos[i].funcion = <<"DESCANSO">>
             ex == extrae_actividad_y_sector(textos[i].funcion)
             fila == [id |-> Len(filas) + 1,
                      controlador |-> user,
                      sector |-> IF descanso THEN 0 ELSE ex.sector,
                      hora_inicio |-> horas[i][1],
                      hora_fin |-> horas[i][2],
                      actividad |-> IF descanso THEN "D" ELSE ex.actividad]
         IN  IF ~descanso /\ ex.error
             THEN [error |-> TRUE, mensaje |-> ex.mensaje, filas |-> filas]
             ELSE IF ~descanso /\ ex.sector \notin sects
             THEN guardar_periodos(user, textos, i + 1, sects, filas)
             ELSE guardar_periodos(user, textos, i + 1, sects, Append(filas, fila))

\* The rows of the document for one controller: strictly increasing start
\* times, one label each.
RECURSIVE TextosDe(_)
TextosDe(horas) ==
    IF horas = {} THEN {<<>>}
    ELSE LET h == CHOOSE x \in horas : \A y \in horas : x <= y
         IN  {<<[hora_inicio |-> h, funcion |-> f]>> \o t :
                 f \in Funciones, t \in TextosDe(horas \ {h})}

SectoresDeTextos(textos) ==
    {textos[i].funcion[2] : i \in {j \in DOMAIN textos : Len(textos[j].funcion) = 2}}

\* ------------------------------------------------------- identifica_grupos
\* periodos_por_controlador[c]: the rows of c in query order
periodos_por_controlador(ps, c) == SelectSeq(ps, LAMBDA p : p.controlador = c)

\* mutant: the missing sector of a rest period counts as a sector
sectores_por_controlador_con_descanso(ps, c) ==
    {ps[i].sector : i \in {j \in DOMAIN ps : ps[j].controlador = c}}

\* sectores_por_controlador[c]
sectores_por_controlador(ps, c) ==
    {ps[i].sector : i \in {j \in DOMAIN ps : ps[j].controlador = c /\ ps[j].sector # 0}}

\* list(sectores_por_controlador.keys()): controllers in the order of their
\* first period with a sector
RECURSIVE claves_sectores(_, _)
claves_sectores(ps, acc) ==
    IF ps = <<>> THEN acc
    ELSE LET p == Head(ps)
         IN  IF p.sector # 0 /\ p.controlador \notin Rango(acc)
             THEN claves_sectores(Tail(ps), Append(acc, p.controlador))
             ELSE claves_sectores(Tail(ps), acc)

Quitar(s, x) == SelectSeq(s, LAMBDA y : y # x)

\* mutant: the absorbed controller is not removed from the worklist
RECURSIVE absorbe_sin_remove(_, _, _, _, _)
absorbe_sin_remove(ps, copia, miembros, grupo_sectores, sin_asignar) ==
    IF copia = <<>>
    THEN [miembros |-> miembros, sectores |-> grupo_sectores,
          sin_asignar |-> sin_asignar]
    ELSE LET otro == Head(copia)
         IN  IF sectores_por_controlador(ps, otro) \cap grupo_sectores # {}
             THEN absorbe_sin_remove(ps, Tail(copia), Append(miembros, otro),
                          grupo_sectores \cup sectores_por_controlador(ps, otro),
                          sin_asignar)
             ELSE absorbe_sin_remove(ps, Tail(copia), miembros, grupo_sectores,
                                     sin_asignar)

\* The single pass "for otro_controlador in controladores_sin_asignar[:]"
RECURSIVE absorbe(_, _, _, _, _)
absorbe(ps, copia, miembros, grupo_sectores, sin_asignar) ==
    IF copia = <<>>
    THEN [miembros |-> miembros, sectores |-> grupo_sectores,
          sin_asignar |-> sin_asignar]
    ELSE LET otro == Head(copia)
         IN  IF sectores_por_controlador(ps, otro) \cap grupo_sectores # {}
             THEN absorbe(ps, Tail(copia), Append(miembros, otro),
                          grupo_sectores \cup sectores_por_controlador(ps, otro),
                          Quitar(sin_asignar, otro))
             ELSE absorbe(ps, Tail(copia), miembros, grupo_sectores, sin_asignar)

\* mutant: the end of the first period is taken instead of the end of the last
duracion_grupo_primer_fin(ps, controlador, miembros) ==
    LET propios == periodos_por_controlador(ps, controlador)
    IN  segundos_div_60(propios[1].hora_fin - propios[1].hora_inicio)

\* Duration of a new group: first and last period of the seeding controller
duracion_grupo(ps, controlador, miembros) ==
    LET propios == periodos_por_controlador(ps, controlador)
        inicio == propios[1].hora_inicio
        fin == Ultimo(propios).hora_fin
    IN  segundos_div_60(fin - inicio)

RECURSIVE bucle_grupos(_, _, _)
bucle_grupos(ps, sin_asignar, res) ==
    IF sin_asignar = <<>> THEN res
    ELSE LET controlador == Head(sin_asignar)
             resto == Tail(sin_asignar)
             sectores_asociados == sectores_por_controlador(ps, controlador)
         IN  IF sectores_asociados = {}
             THEN bucle_grupos(ps, resto, res)
             ELSE LET a == absorbe(ps, resto, <<controlador>>,
                                   sectores_asociados, resto)
                      g == [sectores |-> a.sectores,
                            controladores |-> a.miembros,
                            periodos |-> [c \in Rango(a.miembros) |->
                                             periodos_por_controlador(ps, c)],
                            duracion |-> duracion_grupo(ps, controlador, a.miembros),
                            anchor |-> 0]
                  IN  bucle_grupos(ps, a.sin_asignar, Append(res, g))

identifica_grupos(ps) == bucle_grupos(ps, claves_sectores(ps, <<>>), <<>>)


\* ------------------------------------------------- _genera_horas_de_inicio
\* list.sort(key = hora_inicio): a stable sort
RECURSIVE insertar_ordenado(_, _)
insertar_ordenado(s, p) ==
    IF s = <<>> THEN <<p>>
    ELSE IF Ultimo(s).hora_inicio <= p.hora_inicio THEN Append(s, p)
         ELSE Append(insertar_ordenado(SubSeq(s, 1, Len(s) - 1), p), Ultimo(s))

RECURSIVE ordenar_por_inicio(_, _)
ordenar_por_inicio(s, acc) ==
    IF s = <<>> THEN acc
    ELSE ordenar_por_inicio(Tail(s), insertar_ordenado(acc, Head(s)))

\* periodos_todos: the periods of the members, pooled in member order
RECURSIVE periodos_todos(_, _)
periodos_todos(g, miembros) ==
    IF miembros = <<>> THEN <<>>
    ELSE g.periodos[Head(miembros)] \o periodos_todos(g, Tail(miembros))

\* strftime(t.astimezone(tz), "%H:%M") as <<hour, minute>>
hora_local(utc) ==
    LET local == (utc + DesfaseUTC) % MinutosDia
    IN  <<local \div 60, local % 60>>

\* the number of periods at the head of the deque that start at instant t
RECURSIVE misma_hora(_, _)
misma_hora(cola, t) ==
    IF cola = <<>> \/ Head(cola).hora_inicio # t THEN 0
    ELSE 1 + misma_hora(Tail(cola), t)

\* mutant: periods that start at the same instant are not collapsed
RECURSIVE recorre_deque_sin_colapsar(_, _, _)
recorre_deque_sin_colapsar(dur_total, cola, horas_inicio) ==
    IF cola = <<>> THEN horas_inicio
    ELSE LET hora_inicio_utc == Head(cola).hora_inicio
             k == 1
             current_period == cola[k]
             resto == SubSeq(cola, k + 1, Len(cola))
             duracion == IF resto # <<>>
                         THEN segundos_div_60(Head(resto).hora_inicio - hora_inicio_utc)
                         ELSE segundos_div_60(current_period.hora_fin - hora_inicio_utc)
         IN  recorre_deque_sin_colapsar(dur_total, resto,
                 Append(horas_inicio,
                        [hora_inicio |-> hora_local(hora_inicio_utc),
                         duracion |-> duracion,
                         porcentaje |-> <<duracion * 100, dur_total>>]))

\* The loop "while periodos_deque": one header entry per run of periods that
\* start at the same instant
RECURSIVE recorre_deque(_, _, _)
recorre_deque(dur_total, cola, horas_inicio) ==
    IF cola = <<>> THEN horas_inicio
    ELSE LET hora_inicio_utc == Head(cola).hora_inicio
             k == misma_hora(cola, hora_inicio_utc)
             current_period == cola[k]
             resto == SubSeq(cola, k + 1, Len(cola))
             duracion == IF resto # <<>>
                         THEN segundos_div_60(Head(resto).hora_inicio - hora_inicio_utc)
                         ELSE segundos_div_60(current_period.hora_fin - hora_inicio_utc)
         IN  recorre_deque(dur_total, resto,
                 Append(horas_inicio,
                        [hora_inicio |-> hora_local(hora_inicio_utc),
                         duracion |-> duracion,
                         porcentaje |-> <<duracion * 100, dur_total>>]))

genera_horas_de_inicio(dur_total, g) ==
    recorre_deque(dur_total,
                  ordenar_por_inicio(periodos_todos(g, g.controladores), <<>>),
                  <<>>)


\* -------------------------------------------------------------- _es_activo
\* mutant: inside the span, PAS and FUT are exchanged
es_activo_al_reves(hora_inicio, hora_fin, grupo_hora_inicio, grupo_hora_fin, now) ==
    IF now < grupo_hora_inicio \/ now > grupo_hora_fin THEN "FUT"
    ELSE IF hora_fin < now THEN "FUT"
    ELSE IF hora_inicio > now THEN "PAS"
    ELSE "ACT"

\* mutant: the bounds of the period are exclusive
es_activo_estricto(hora_inicio, hora_fin, grupo_hora_inicio, grupo_hora_fin, now) ==
    IF now < grupo_hora_inicio \/ now > grupo_hora_fin THEN "FUT"
    ELSE IF hora_fin <= now THEN "PAS"
    ELSE IF hora_inicio >= now THEN "FUT"
    ELSE "ACT"

\* mutant: a period that ended before now is PAS even outside the span
es_activo_sin_tramo(hora_inicio, hora_fin, grupo_hora_inicio, grupo_hora_fin, now) ==
    IF hora_fin < now THEN "PAS"
    ELSE IF hora_inicio > now THEN "FUT"
    ELSE IF now < grupo_hora_inicio \/ now > grupo_hora_fin THEN "FUT"
    ELSE "ACT"

es_activo(hora_inicio, hora_fin, grupo_hora_inicio, grupo_hora_fin, now) ==
    IF now < grupo_hora_inicio \/ now > grupo_hora_fin THEN "FUT"
    ELSE IF hora_fin < now THEN "PAS"
    ELSE IF hora_inicio > now THEN "FUT"
    ELSE "ACT"

\* ------------------------------------------------------------ ColorManager
\* Colours are <<red, green, blue>>: "#FF5733" is <<255, 87, 51>>.
\* available_colors of __post_init__: ten hues, listed twice
Paleta ==
    << <<255, 87, 51>>, <<51, 255, 87>>, <<51, 87, 255>>, <<255, 51, 161>>,
       <<161, 51, 255>>, <<51, 255, 242>>, <<255, 193, 51>>, <<255, 51, 51>>,
       <<51, 255, 153>>, <<255, 51, 255>>,
       <<255, 87, 51>>, <<51, 255, 87>>, <<51, 87, 255>>, <<255, 51, 161>>,
       <<161, 51, 255>>, <<51, 255, 242>>, <<255, 193, 51>>, <<255, 51, 51>>,
       <<51, 255, 153>>, <<255, 51, 255>> >>

\* mutant: the planner shade is the executive shade
darken_color_identidad(color) == color

\* _darken_color: rgb_to_hls, lightness - 0.3 floored at 0, hls_to_rgb and
\* int(channel * 255), as evaluated in IEEE double arithmetic for the hues of
\* the palette
darken_color(color) ==
    CASE color = <<255, 87, 51>> -> <<153, 27, 0>>
      [] color = <<51, 255, 87>> -> <<0, 153, 27>>
      [] color = <<51, 87, 255>> -> <<0, 27, 153>>
      [] color = <<255, 51, 161>> -> <<153, 0, 82>>
      [] color = <<161, 51, 255>> -> <<82, 0, 153>>
      [] color = <<51, 255, 242>> -> <<0, 153, 143>>
      [] color = <<255, 193, 51>> -> <<153, 106, 0>>
      [] color = <<255, 51, 51>> -> <<153, 0, 0>>
      [] color = <<51, 255, 153>> -> <<0, 153, 76>>
      [] color = <<255, 51, 255>> -> <<153, 0, 152>>

\* ColorManager()
nuevo_color_manager ==
    [sector_colors |-> <<>>, used_colors |-> {}, available_colors |-> Paleta]

\* mutant: every call takes a new palette entry, the cached pair is ignored
get_color_sin_cache(m, sector, is_executive) ==
    IF m.available_colors = <<>>
    THEN [cm |-> m, error |-> TRUE, color |-> <<>>]
    ELSE LET color == Head(m.available_colors)
             par == <<color, darken_color(color)>>
             m2 == [m EXCEPT !.available_colors = Tail(m.available_colors),
                             !.sector_colors =
                                 [w \in DOMAIN m.sector_colors \cup {sector} |->
                                     IF w = sector THEN par ELSE m.sector_colors[w]]]
         IN  [cm |-> m2, error |-> FALSE,
              color |-> IF is_executive THEN par[1] ELSE par[2]]

\* mutant: the palette entry is read but not removed from available_colors
get_color_sin_pop(m, sector, is_executive) ==
    IF sector \notin DOMAIN m.sector_colors /\ m.available_colors = <<>>
    THEN [cm |-> m, error |-> TRUE, color |-> <<>>]
    ELSE LET color == Head(m.available_colors)
             m2 == IF sector \in DOMAIN m.sector_colors THEN m
                   ELSE [m EXCEPT !.sector_colors =
                                 [w \in DOMAIN m.sector_colors \cup {sector} |->
                                     IF w = sector
                                     THEN <<color, darken_color(color)>>
                                     ELSE m.sector_colors[w]]]
         IN  [cm |-> m2, error |-> FALSE,
              color |-> IF is_executive THEN m2.sector_colors[sector][1]
                        ELSE m2.sector_colors[sector][2]]

\* get_color; error is TRUE where available_colors.pop(0) raises IndexError
get_color(m, sector, is_executive) ==
    IF sector \notin DOMAIN m.sector_colors /\ m.available_colors = <<>>
    THEN [cm |-> m, error |-> TRUE, color |-> <<>>]
    ELSE LET color == Head(m.available_colors)
             m2 == IF sector \in DOMAIN m.sector_colors THEN m
                   ELSE [m EXCEPT !.available_colors = Tail(m.available_colors),
                                  !.sector_colors =
                                     [w \in DOMAIN m.sector_colors \cup {sector} |->
                                         IF w = sector
                                         THEN <<color, darken_color(color)>>
                                         ELSE m.sector_colors[w]]]
         IN  [cm |-> m2, error |-> FALSE,
              color |-> IF is_executive THEN m2.sector_colors[sector][1]
                        ELSE m2.sector_colors[sector][2]]

\* ------------------------------------------------------------------ actions
Init ==
    /\ fase = "carga"
    /\ sectores_db = {}
    /\ periodos = <<>>
    /\ n_atc = 0
    /\ grupos = <<>>
    /\ cabecera = <<>>
    /\ clasif = <<>>
    /\ cm = <<>>
    /\ color_res = <<>>
    /\ primer_color = <<>>
    /\ llamadas = <<>>
    /\ reloj = 0
    /\ estadillos_db = {}
    /\ atcs_db = {}
    /\ servicios = {}
    /\ subida = <<>>
    /\ color_per = <<>>

\* One iteration of the loop of procesar_controladores_y_sectores: the
\* controller is created, the sectors of its first-page row are added to the
\* sector table, and guardar_periodos stores its periods.
ProcesarControlador ==
    /\ fase = "carga"
    /\ n_atc < MaxATC
    /\ \E horas \in (SUBSET HorasLocales) \ {{}} :
       \E textos \in TextosDe(horas) :
       \E declarados \in {SectoresDeTextos(textos), {}} :
          LET sects == sectores_db \cup declarados
              nuevas == guardar_periodos(n_atc + 1, textos, 1, sects, periodos)
          IN  /\ Len(periodos) + Len(textos) <= MaxPeriodos
              /\ ~nuevas.error
              /\ sectores_db' = sects
              /\ periodos' = nuevas.filas
              /\ n_atc' = n_atc + 1
    /\ UNCHANGED <<fase, grupos, cabecera, clasif, cm, color_res, primer_color,
                   vars_pres, vars_carga, color_per>>

\* identifica_grupos(estadillo, session) on the stored roster
IdentificaGrupos ==
    /\ fase = "carga"
    /\ fase' = "grupos"
    /\ grupos' = identifica_grupos(periodos)
    /\ UNCHANGED <<sectores_db, periodos, n_atc, cabecera, clasif, cm,
                   color_res, primer_color,
                   vars_pres, vars_carga, color_per>>

\* _genera_horas_de_inicio(grupo.duracion, grupo.controladores, tz) for one
\* of the groups found
GeneraHorasDeInicio ==
    /\ fase = "grupos"
    /\ \E i \in DOMAIN grupos :
          cabecera' = <<[grupo |-> i,
                         horas |-> genera_horas_de_inicio(grupos[i].duracion,
                                                          grupos[i])]>>
    /\ UNCHANGED <<fase, sectores_db, periodos, n_atc, grupos, clasif, cm,
                   color_res, primer_color,
                   vars_pres, vars_carga, color_per>>

Next ==
    \/ ProcesarControlador
    \/ IdentificaGrupos
    \/ GeneraHorasDeInicio

Spec == Init /\ [][Next]_vars

\* ---------------------------------------------- specification of _es_activo
Instantes == 0..MaxNow

InitClasif ==
    /\ fase = "carga"
    /\ sectores_db = {}
    /\ periodos = <<>>
    /\ n_atc = 0
    /\ grupos = <<>>
    /\ cabecera = <<>>
    /\ \E hi \in Instantes, hf \in Instantes, gi \in Instantes,
          gf \in Instantes, now \in Instantes :
          /\ hi <= hf
          /\ gi <= gf
          /\ clasif = <<[hora_inicio |-> hi, hora_fin |-> hf,
                         grupo_hora_inicio |-> gi, grupo_hora_fin |-> gf,
                         now |-> now, res |-> ""]>>
    /\ cm = <<>>
    /\ color_res = <<>>
    /\ primer_color = <<>>
    /\ llamadas = <<>>
    /\ reloj = 0
    /\ estadillos_db = {}
    /\ atcs_db = {}
    /\ servicios = {}
    /\ subida = <<>>
    /\ color_per = <<>>

\* _es_activo applied to the arguments drawn
EsActivo ==
    /\ clasif # <<>>
    /\ clasif[1].res = ""
    /\ clasif' = <<[clasif[1] EXCEPT !.res =
                       es_activo(clasif[1].hora_inicio, clasif[1].hora_fin,
                                 clasif[1].grupo_hora_inicio,
                                 clasif[1].grupo_hora_fin, clasif[1].now)]>>
    /\ UNCHANGED <<fase, sectores_db, periodos, n_atc, grupos, cabecera, cm,
                   color_res, primer_color,
                   vars_pres, vars_carga, color_per>>

NextClasif == EsActivo

SpecClasif == InitClasif /\ [][NextClasif]_vars

\* The colour "white" of a rest period
Blanco == <<255, 255, 255>>

\* -------------------------------------------- specification of ColorManager
MaxObservado == 2

InitColor ==
    /\ fase = "carga"
    /\ sectores_db = {}
    /\ periodos = <<>>
    /\ n_atc = 0
    /\ grupos = <<>>
    /\ cabecera = <<>>
    /\ clasif = <<>>
    /\ cm = <<nuevo_color_manager>>
    /\ color_res = <<>>
    /\ primer_color = <<>>
    /\ llamadas = <<>>
    /\ reloj = 0
    /\ estadillos_db = {}
    /\ atcs_db = {}
    /\ servicios = {}
    /\ subida = <<>>
    /\ color_per = <<>>

\* color_manager.get_color(sector, is_executive = f).  Sector names are
\* interchangeable: the k-th distinct sector requested is named k.
\* primer_color keeps the colour of the first call for each (sector, flag)
\* of the sectors 1 .. MaxObservado.
GetColor ==
    /\ cm # <<>>
    /\ \E sector \in 1..MaxColorSector, is_executive \in BOOLEAN :
          LET r == get_color(cm[1], sector, is_executive)
              clave == <<sector, is_executive>>
          IN  /\ sector <= Cardinality(DOMAIN cm[1].sector_colors) + 1
              /\ cm' = <<r.cm>>
              /\ color_res' = <<[sector |-> sector, is_executive |-> is_executive,
                                 color |-> r.color, error |-> r.error]>>
              /\ primer_color' =
                    IF sector <= MaxObservado /\ ~r.error
                       /\ clave \notin DOMAIN primer_color
                    THEN [c \in DOMAIN primer_color \cup {clave} |->
                             IF c = clave THEN r.color ELSE primer_color[c]]
                    ELSE primer_color
    /\ UNCHANGED <<fase, sectores_db, periodos, n_atc, grupos, cabecera, clasif,
                   vars_pres, vars_carga, color_per>>

NextColor == GetColor

SpecColor == InitColor /\ [][NextColor]_vars

\* ------------------------------------------- specification of _genera_color
\* mutant: a rest period asks the ColorManager like any other period
genera_color_sin_descanso(per, m) ==
    get_color(m, per.sector, per.actividad = "E")

\* _genera_color: the ColorManager after the call, and the colour
genera_color(per, m) ==
    IF per.actividad = "D"
    THEN [cm |-> m, error |-> FALSE, color |-> Blanco]
    ELSE get_color(m, per.sector, per.actividad = "E")

\* _genera_color(per, color_manager) for a period of any activity.  A rest
\* period is drawn with any sector (0 is None); the sectors of the other
\* periods are named in order of first request.  color_per keeps the period,
\* the ColorManager before the call and the colour returned.
GeneraColor ==
    /\ cm # <<>>
    /\ \E actividad \in {"D", "E", "P"}, sector \in 0..MaxColorSector :
          LET per == [actividad |-> actividad, sector |-> sector]
              r == genera_color(per, cm[1])
          IN  /\ actividad # "D" =>
                    sector \in 1..(Cardinality(DOMAIN cm[1].sector_colors) + 1)
              /\ cm' = <<r.cm>>
              /\ color_per' = <<[per |-> per, antes |-> cm[1],
                                 color |-> r.color, error |-> r.error]>>
    /\ UNCHANGED <<fase, sectores_db, periodos, n_atc, grupos, cabecera, clasif,
                   color_res, primer_color, vars_pres, vars_carga>>

NextGeneraColor == GeneraColor

SpecGeneraColor == InitColor /\ [][NextGeneraColor]_vars

\* ===================================================================== claims
Controladores(ps) == {ps[i].controlador : i \in DOMAIN ps}

ConSector(ps) == {c \in Controladores(ps) : sectores_por_controlador(ps, c) # {}}

Comparten(ps, a, b) ==
    sectores_por_controlador(ps, a) \cap sectores_por_controlador(ps, b) # {}

\* the controllers linked to those of S by a chain of shared sectors
RECURSIVE Enlazados(_, _)
Enlazados(ps, S) ==
    LET mas == S \cup {c \in ConSector(ps) : \E a \in S : Comparten(ps, a, c)}
    IN  IF mas = S THEN S ELSE Enlazados(ps, mas)

Miembros(g) == Rango(g.controladores)

GruposDe(gs, c) == {i \in DOMAIN gs : c \in Miembros(gs[i])}

\* C1: any two controllers linked by a chain of shared sectors are members
\* of the same group returned by identifica_grupos.
C1_Transitividad ==
    fase = "grupos" =>
        \A a \in ConSector(periodos) : \A b \in Enlazados(periodos, {a}) :
            \E i \in DOMAIN grupos : {a, b} \subseteq Miembros(grupos[i])

\* C2: every controller with a period that has a sector is a member of
\* exactly one group (and listed once in it); a controller with only rest
\* periods is a member of none.
C2_Completitud ==
    fase = "grupos" =>
        /\ \A c \in ConSector(periodos) : Cardinality(GruposDe(grupos, c)) = 1
        /\ \A i \in DOMAIN grupos :
              Len(grupos[i].controladores) = Cardinality(Miembros(grupos[i]))
        /\ \A c \in Controladores(periodos) \ ConSector(periodos) :
              GruposDe(grupos, c) = {}

C2_Testigo ==
    /\ fase = "grupos"
    /\ \E i \in DOMAIN grupos : Len(grupos[i].controladores) >= 2
    /\ Controladores(periodos) \ ConSector(periodos) # {}

\* the partition of the controllers and the sector set of each part
Particion(gs) ==
    {[miembros |-> Miembros(gs[i]), sectores |-> gs[i].sectores] : i \in DOMAIN gs}

Reordenado(ps, f) == [i \in DOMAIN ps |-> ps[f[i]]]

\* C3: identifica_grupos returns the same partition of the controllers, with
\* the same sector set per group, for every ordering of the same periods.
C3_IndependenciaDelOrden ==
    fase = "grupos" =>
        \A f \in Permutations(DOMAIN periodos) :
            Particion(identifica_grupos(Reordenado(periodos, f))) = Particion(grupos)

\* the closing time guardar_periodos gives to a period that starts at t
Cierre(t) ==
    IF t < string_to_utc_datetime(FinMananaLocal)
    THEN string_to_utc_datetime(FinMananaLocal)
    ELSE string_to_utc_datetime(FinTardeLocal)

\* each period of the list ends where the next one starts
Seguidos(s) == \A i \in 1..(Len(s) - 1) : s[i].hora_fin = s[i + 1].hora_inicio

\* the periods of every controller are contiguous and the last one ends at
\* the closing time
RosterContiguo(ps) ==
    \A c \in Controladores(ps) :
        LET propios == periodos_por_controlador(ps, c)
        IN  /\ Seguidos(propios)
            /\ Ultimo(propios).hora_fin = Cierre(Ultimo(propios).hora_inicio)

DuracionesCabecera(h) == [i \in DOMAIN h |-> h[i].duracion]

\* C4: over a roster whose per-controller periods are contiguous, the
\* durations of the header entries of a group add up to the group's duracion.
C4_ConservacionCabecera ==
    (cabecera # <<>> /\ RosterContiguo(periodos)) =>
        SumSeq(DuracionesCabecera(cabecera[1].horas))
            = grupos[cabecera[1].grupo].duracion

\* Periodo.duracion
duracion_periodo(p) == segundos_div_60(p.hora_fin - p.hora_inicio)

DuracionMiembro(g, c) ==
    SumSeq([i \in DOMAIN g.periodos[c] |-> duracion_periodo(g.periodos[c][i])])

\* C5 (as claimed): the durations of the periods of every member of every
\* group add up to the group's duracion.
C5_SimetriaDuracion ==
    fase = "grupos" =>
        \A i \in DOMAIN grupos : \A c \in Miembros(grupos[i]) :
            DuracionMiembro(grupos[i], c) = grupos[i].duracion

\* the periods of member c are contiguous, none ends before it starts, and
\* they run from the first start to the last end of the first controller
\* discovered of the group
MismoTramo(g, c) ==
    LET propios == g.periodos[c]
        semilla == g.periodos[g.controladores[1]]
    IN  /\ Seguidos(propios)
        /\ \A k \in DOMAIN propios :
              /\ propios[k].hora_inicio <= propios[k].hora_fin
              /\ propios[k].hora_fin - propios[k].hora_inicio < MinutosDia
        /\ propios[1].hora_inicio = semilla[1].hora_inicio
        /\ Ultimo(propios).hora_fin = Ultimo(semilla).hora_fin
        /\ Ultimo(semilla).hora_fin - semilla[1].hora_inicio < MinutosDia

\* C5 (amended): the durations of the periods of a member add up to the
\* group's duracion when the member's periods are contiguous and span the
\* same interval as those of the first controller discovered of the group.
C5_SimetriaMismoTramo ==
    fase = "grupos" =>
        \A i \in DOMAIN grupos : \A c \in Miembros(grupos[i]) :
            MismoTramo(grupos[i], c) =>
                DuracionMiembro(grupos[i], c) = grupos[i].duracion

C5_Testigo ==
    /\ fase = "grupos"
    /\ \E i \in DOMAIN grupos :
          /\ Len(grupos[i].controladores) >= 2
          /\ \E c \in Miembros(grupos[i]) \ {grupos[i].controladores[1]} :
                /\ MismoTramo(grupos[i], c)
                /\ Len(grupos[i].periodos[c]) >= 2
          /\ Len(grupos[i].periodos[grupos[i].controladores[1]]) >= 2

PeriodosGrupo(g) == UNION {Rango(g.periodos[c]) : c \in Miembros(g)}

Minimo(S) == CHOOSE x \in S : \A y \in S : x <= y
Maximo(S) == CHOOSE x \in S : \A y \in S : x >= y

\* C6: the duracion of a group is the number of minutes from the earliest
\* start to the latest end over the periods of all its members.
C6_DuracionGrupo ==
    fase = "grupos" =>
        \A i \in DOMAIN grupos :
            grupos[i].duracion =
                Maximo({p.hora_fin : p \in PeriodosGrupo(grupos[i])})
                - Minimo({p.hora_inicio : p \in PeriodosGrupo(grupos[i])})

\* C7 (as claimed): _es_activo returns one of PAS, ACT, FUT, and ACT exactly
\* when hora_inicio <= now <= hora_fin.
C7_Totalidad ==
    (clasif # <<>> /\ clasif[1].res # "") =>
        /\ clasif[1].res \in {"PAS", "ACT", "FUT"}
        /\ clasif[1].res = "ACT" <=>
              (clasif[1].hora_inicio <= clasif[1].now
                  /\ clasif[1].now <= clasif[1].hora_fin)

\* C7 (amended): _es_activo returns one of PAS, ACT, FUT, and ACT exactly
\* when hora_inicio <= now <= hora_fin and now lies in the span of the group.
C7_TotalidadEnTramo ==
    (clasif # <<>> /\ clasif[1].res # "") =>
        /\ clasif[1].res \in {"PAS", "ACT", "FUT"}
        /\ clasif[1].res = "ACT" <=>
              (/\ clasif[1].hora_inicio <= clasif[1].now
               /\ clasif[1].now <= clasif[1].hora_fin
               /\ clasif[1].grupo_hora_inicio <= clasif[1].now
               /\ clasif[1].now <= clasif[1].grupo_hora_fin)

C7_Testigo ==
    /\ clasif # <<>>
    /\ clasif[1].res = "ACT"
    /\ clasif[1].now = clasif[1].hora_fin
    /\ clasif[1].hora_inicio < clasif[1].now

FueraDeTramo(k) ==
    k.now < k.grupo_hora_inicio \/ k.now > k.grupo_hora_fin

\* C8: outside the span of the group every period is FUT, also one that ended
\* before now; inside it a period that ended before now is PAS, else one
\* that starts after now is FUT, else the period is ACT.
C8_FueraDeTramo ==
    (clasif # <<>> /\ clasif[1].res # "") =>
        LET k == clasif[1]
        IN  /\ FueraDeTramo(k) => k.res = "FUT"
            /\ (~FueraDeTramo(k) /\ k.hora_fin < k.now) => k.res = "PAS"
            /\ (~FueraDeTramo(k) /\ k.hora_fin >= k.now /\ k.hora_inicio > k.now)
                  => k.res = "FUT"
            /\ (~FueraDeTramo(k) /\ k.hora_fin >= k.now /\ k.hora_inicio <= k.now)
                  => k.res = "ACT"

C8_Testigo ==
    /\ clasif # <<>>
    /\ clasif[1].res = "FUT"
    /\ clasif[1].now > clasif[1].grupo_hora_fin
    /\ clasif[1].hora_fin < clasif[1].now

\* C9: a call get_color(w, is_executive = f) returns the colour that the
\* first call get_color(w, is_executive = f) of the instance returned.
C9_ColorEstable ==
    (color_res # <<>>
        /\ <<color_res[1].sector, color_res[1].is_executive>> \in DOMAIN primer_color)
    => /\ ~color_res[1].error
       /\ color_res[1].color
             = primer_color[<<color_res[1].sector, color_res[1].is_executive>>]

C9_Testigo ==
    /\ color_res # <<>>
    /\ color_res[1].sector = 1
    /\ ~color_res[1].error
    /\ Cardinality(DOMAIN cm[1].sector_colors) >= 11
    /\ <<1, color_res[1].is_executive>> \in DOMAIN primer_color

EjecutivosDistintos(m) ==
    \A w1 \in DOMAIN m.sector_colors : \A w2 \in DOMAIN m.sector_colors :
        w1 # w2 => m.sector_colors[w1][1] # m.sector_colors[w2][1]

\* C10 (as claimed): while available_colors is not empty, no two sectors
\* hold the same executive colour.
C10_ColoresUnicos ==
    (cm # <<>> /\ cm[1].available_colors # <<>>) => EjecutivosDistintos(cm[1])

\* C10 (amended): while at most ten sectors have been given a colour, no two
\* sectors hold the same executive colour.
C10_ColoresUnicosDiez ==
    (cm # <<>> /\ Cardinality(DOMAIN cm[1].sector_colors) <= 10)
        => EjecutivosDistintos(cm[1])

C10_Testigo ==
    /\ cm # <<>>
    /\ Cardinality(DOMAIN cm[1].sector_colors) = 10
    /\ Len(cm[1].available_colors) = 10

\* ================================================== presentation of a roster
\* A presentation call genera_datos_estadillo(estadillo, session, user) is a
\* record: the rows of its estadillo, the viewer (0 is None), its position pc,
\* its own groups, ColorManager, rendered groups and personal view, and the
\* clock readings it has made so far.

\* ------------------------------------------------------------ marca_anchor
\* "for grupo in grupos for controlador, periodos in grupo.controladores
\*  .items() for periodo in periodos"
RECURSIVE periodos_de_grupos(_)
periodos_de_grupos(gs) ==
    IF gs = <<>> THEN <<>>
    ELSE periodos_todos(Head(gs), Head(gs).controladores)
         \o periodos_de_grupos(Tail(gs))

\* mutant: every period counts as active
periodos_activos_todos(gs, now) == periodos_de_grupos(gs)

\* periodos_activos: hora_inicio_utc <= now <= hora_fin_utc
periodos_activos(gs, now) ==
    SelectSeq(periodos_de_grupos(gs),
              LAMBDA p : p.hora_inicio <= now /\ now <= p.hora_fin)

\* max(grupos, key = lambda g: len(g.controladores)): the first group of the
\* greatest size, among all the groups
grupo_con_mas_controladores(gs) ==
    CHOOSE i \in DOMAIN gs :
        /\ \A j \in DOMAIN gs :
              Len(gs[j].controladores) <= Len(gs[i].controladores)
        /\ \A j \in 1..(i - 1) :
              Len(gs[j].controladores) < Len(gs[i].controladores)

\* mutant: every group with an active period gets an anchor
marca_anchor_en_cada_grupo(gs, user, now) ==
    [k \in DOMAIN gs |->
        LET suyos == SelectSeq(periodos_activos(gs, now), LAMBDA p :
                         p.controlador \in Rango(gs[k].controladores))
        IN  IF suyos # <<>> THEN [gs[k] EXCEPT !.anchor = suyos[1].id]
            ELSE gs[k]]

\* mutant: the viewer is not looked at
marca_anchor_sin_usuario(gs, user, now) ==
    LET activos == periodos_activos(gs, now)
    IN  IF activos # <<>>
        THEN LET k == grupo_con_mas_controladores(gs)
                 suyos == SelectSeq(activos, LAMBDA p :
                              p.controlador \in Rango(gs[k].controladores))
             IN  IF suyos # <<>> THEN [gs EXCEPT ![k].anchor = suyos[1].id]
                 ELSE gs
        ELSE gs

\* marca_anchor(grupos, user, tz) with now the reading of the clock; the
\* anchor of a group is the id of a period, 0 for None
marca_anchor(gs, user, now) ==
    LET activos == periodos_activos(gs, now)
        propios == SelectSeq(activos, LAMBDA p : p.controlador = user)
        del_usuario == {i \in DOMAIN gs : user \in Rango(gs[i].controladores)}
    IN  IF user # 0 /\ propios # <<>> /\ del_usuario # {}
        THEN [gs EXCEPT ![Minimo(del_usuario)].anchor = propios[1].id]
        ELSE IF activos # <<>>
             THEN LET k == grupo_con_mas_controladores(gs)
                      suyos == SelectSeq(activos, LAMBDA p :
                                   p.controlador \in Rango(gs[k].controladores))
                  IN  IF suyos # <<>> THEN [gs EXCEPT ![k].anchor = suyos[1].id]
                      ELSE gs
             ELSE gs

\* ------------------------------------------------------ genera_datos_grupo
\* _genera_actividad: "" for rest, "CAS", or "E-ASV" kept as its parts
genera_actividad(per) ==
    IF per.actividad = "D" THEN <<>>
    ELSE IF per.actividad = "CAS" THEN <<"CAS">>
    ELSE <<per.actividad, per.sector>>

\* actividad.split("-")[0]: "" for a rest period, "CAS", or the role
primera_parte(actividad) == IF actividad = <<>> THEN "" ELSE actividad[1]

\* actividad.split("-")[-1]: the sector name; 0 stands for "", and the label
\* "CAS" gives the same string as a sector named CAS
ultima_parte(actividad) ==
    IF actividad = <<>> THEN 0
    ELSE IF Len(actividad) = 1 THEN SectorCAS
    ELSE actividad[2]

\* Estadillo.hora_inicio and Estadillo.hora_fin: over all rows of the roster
estadillo_hora_inicio(ps) == Minimo({ps[i].hora_inicio : i \in DOMAIN ps})
estadillo_hora_fin(ps) == Maximo({ps[i].hora_fin : i \in DOMAIN ps})

\* mutant: an instant after the end of the roster is not capped
calcula_marcador_sin_tope(ps, now) ==
    IF ps = <<>> THEN <<0, 1>>
    ELSE LET inicio_grupo == estadillo_hora_inicio(ps)
             fin_grupo == estadillo_hora_fin(ps)
         IN  IF now < inicio_grupo THEN <<0, 1>>
             ELSE <<(now - inicio_grupo) * 100, fin_grupo - inicio_grupo>>

\* calcula_marcador, as the fraction <<numerator, denominator>>
calcula_marcador(ps, now) ==
    IF ps = <<>> THEN <<0, 1>>
    ELSE LET inicio_grupo == estadillo_hora_inicio(ps)
             fin_grupo == estadillo_hora_fin(ps)
         IN  IF now < inicio_grupo THEN <<0, 1>>
             ELSE IF now > fin_grupo THEN <<100, 1>>
             ELSE <<(now - inicio_grupo) * 100, fin_grupo - inicio_grupo>>

\* The list comprehension of PeriodoData of one controller; the ColorManager
\* is threaded through the calls of _genera_color
RECURSIVE periodos_data(_, _, _, _, _, _)
periodos_data(ps, g, pers, m, now, acc) ==
    IF pers = <<>> THEN [cm |-> m, error |-> FALSE, periodos |-> acc]
    ELSE LET p == Head(pers)
             c == genera_color(p, m)
             duracion == segundos_div_60(p.hora_fin - p.hora_inicio)
             dato == [hora_inicio |-> hora_local(p.hora_inicio),
                      hora_fin |-> hora_local(p.hora_fin),
                      actividad |-> genera_actividad(p),
                      color |-> c.color,
                      duracion |-> duracion,
                      porcentaje |-> <<duracion * 100, g.duracion>>,
                      activo |-> es_activo(p.hora_inicio, p.hora_fin,
                                           estadillo_hora_inicio(ps),
                                           estadillo_hora_fin(ps), now),
                      scroll_anchor |-> p.id = g.anchor]
         IN  IF c.error THEN [cm |-> c.cm, error |-> TRUE, periodos |-> acc]
             ELSE periodos_data(ps, g, Tail(pers), c.cm, now, Append(acc, dato))

\* "for controlador, periodos in grupo.controladores.items()"
RECURSIVE atcs_data(_, _, _, _, _, _, _)
atcs_data(ps, g, miembros, m, user, now, acc) ==
    IF miembros = <<>> THEN [cm |-> m, error |-> FALSE, atcs |-> acc]
    ELSE LET controlador == Head(miembros)
             r == periodos_data(ps, g, g.periodos[controlador], m, now, <<>>)
             atc_data == [nombre |-> controlador,
                          periodos |-> r.periodos,
                          usuario_actual |-> controlador = user]
         IN  IF r.error THEN [cm |-> r.cm, error |-> TRUE, atcs |-> acc]
             ELSE atcs_data(ps, g, Tail(miembros), r.cm, user, now,
                            Append(acc, atc_data))

\* sectores.sort()
RECURSIVE ordenados(_)
ordenados(S) ==
    IF S = {} THEN <<>> ELSE <<Minimo(S)>> \o ordenados(S \ {Minimo(S)})

\* genera_datos_grupo(grupo, color_manager, tz, user) with now the reading
\* of the clock made at its start
genera_datos_grupo(ps, g, m, user, now) ==
    LET r == atcs_data(ps, g, g.controladores, m, user, now, <<>>)
    IN  [cm |-> r.cm,
         error |-> r.error,
         datos |-> [sectores |-> ordenados(g.sectores),
                    atcs |-> r.atcs,
                    horas_inicio |-> genera_horas_de_inicio(g.duracion, g),
                    marcador |-> calcula_marcador(ps, now)]]

\* ---------------------------------------------- generar_estadillo_personal
\* mutant: only the first rendered group is searched
atcs_de_grupos_primero(gd) ==
    IF gd = <<>> THEN <<>> ELSE Head(gd).atcs

\* "for grupo in grupos_datos for atc_data in grupo.atcs"
RECURSIVE atcs_de_grupos(_)
atcs_de_grupos(gd) ==
    IF gd = <<>> THEN <<>> ELSE Head(gd).atcs \o atcs_de_grupos(Tail(gd))

\* The InfoCompañero entries of one period of the viewer: "for grupo in
\* grupos_datos for atc_data in grupo.atcs if atc_data != mi_estadillo_
\* personal for otro_periodo in atc_data.periodos"
RECURSIVE companeros(_, _, _)
companeros(periodo, mi, atcs) ==
    IF atcs = <<>> THEN <<>>
    ELSE LET atc_data == Head(atcs)
             coinciden ==
                 SelectSeq(atc_data.periodos, LAMBDA otro :
                     /\ otro.hora_inicio = periodo.hora_inicio
                     /\ otro.hora_fin = periodo.hora_fin
                     /\ ultima_parte(otro.actividad)
                           = ultima_parte(periodo.actividad))
             infos == [k \in DOMAIN coinciden |->
                          [nombre |-> atc_data.nombre,
                           actividad |-> primera_parte(coinciden[k].actividad)]]
         IN  (IF atc_data # mi THEN infos ELSE <<>>)
             \o companeros(periodo, mi, Tail(atcs))

\* mutant: a viewer who is not found gets an empty view
generar_estadillo_personal_vacio(grupos_datos, user) ==
    LET atcs == atcs_de_grupos(grupos_datos)
        mios == SelectSeq(atcs, LAMBDA a : a.usuario_actual)
    IN  IF mios = <<>>
        THEN [error |-> FALSE, mensaje |-> 0,
              vista |-> [estadillo_base |-> <<>>,
                         periodos_contextualizados |-> <<>>]]
        ELSE LET mi == mios[1]
             IN  [error |-> FALSE, mensaje |-> 0,
                  vista |-> [estadillo_base |-> <<mi>>,
                             periodos_contextualizados |->
                                [k \in DOMAIN mi.periodos |->
                                    [periodo |-> mi.periodos[k],
                                     companeros |->
                                        companeros(mi.periodos[k], mi, atcs)]]]]

\* generar_estadillo_personal(estadillo, grupos_datos, user); error is TRUE
\* where the code raises ValueError, and mensaje is the user it names.  A
\* PeriodoContextualizado is the PeriodoData it copies plus its compañeros.
generar_estadillo_personal(grupos_datos, user) ==
    LET atcs == atcs_de_grupos(grupos_datos)
        mios == SelectSeq(atcs, LAMBDA a : a.usuario_actual)
    IN  IF mios = <<>>
        THEN [error |-> TRUE, mensaje |-> user,
              vista |-> [estadillo_base |-> <<>>,
                         periodos_contextualizados |-> <<>>]]
        ELSE LET mi == mios[1]
             IN  [error |-> FALSE, mensaje |-> 0,
                  vista |-> [estadillo_base |-> <<mi>>,
                             periodos_contextualizados |->
                                [k \in DOMAIN mi.periodos |->
                                    [periodo |-> mi.periodos[k],
                                     companeros |->
                                        companeros(mi.periodos[k], mi, atcs)]]]]

\* -------------------------------------------------- genera_datos_estadillo
\* The instants the clock can show when it is read
Reloj == {300, 400, 555, 600}

\* a call that has just been entered
llamada_nueva(ps, user) ==
    [estadillo |-> ps, user |-> user, pc |-> "identifica", error |-> "",
     grupos |-> <<>>, cm |-> <<>>, grupos_datos |-> <<>>, vista |-> <<>>,
     lecturas |-> <<>>]

\* grupos = identifica_grupos(estadillo, session)
LlamaIdentificaGrupos(i) ==
    /\ llamadas[i].pc = "identifica"
    /\ llamadas' = [llamadas EXCEPT
                       ![i].grupos = identifica_grupos(llamadas[i].estadillo),
                       ![i].pc = "anchor"]
    /\ UNCHANGED <<fase, sectores_db, periodos, n_atc, grupos, cabecera,
                   clasif, cm, color_res, primer_color, reloj, vars_carga, color_per>>

\* marca_anchor(grupos, user, tz): reads the clock
LlamaMarcaAnchor(i) ==
    /\ llamadas[i].pc = "anchor"
    /\ \E now \in Reloj :
          /\ now >= reloj
          /\ reloj' = now
          /\ llamadas' = [llamadas EXCEPT
                ![i].grupos = marca_anchor(llamadas[i].grupos,
                                           llamadas[i].user, now),
                ![i].lecturas = Append(llamadas[i].lecturas, now),
                ![i].pc = "color"]
    /\ UNCHANGED <<fase, sectores_db, periodos, n_atc, grupos, cabecera,
                   clasif, cm, color_res, primer_color, vars_carga, color_per>>

\* mutant: the calls share the ColorManager of the first call
color_manager_compartido(ls, i) == IF ls[1].cm # <<>> THEN ls[1].cm ELSE ls[i].cm

\* the ColorManager that call i passes to genera_datos_grupo: its own
color_manager_de(ls, i) == ls[i].cm

\* color_manager = ColorManager()
CreaColorManager(i) ==
    /\ llamadas[i].pc = "color"
    /\ llamadas' = [llamadas EXCEPT ![i].cm = <<nuevo_color_manager>>,
                                    ![i].pc = "grupo"]
    /\ UNCHANGED <<fase, sectores_db, periodos, n_atc, grupos, cabecera,
                   clasif, cm, color_res, primer_color, reloj, vars_carga, color_per>>

\* One element of the list comprehension "genera_datos_grupo(grupo,
\* color_manager, tz, user) for grupo in grupos": reads the clock
LlamaGeneraDatosGrupo(i) ==
    /\ llamadas[i].pc = "grupo"
    /\ Len(llamadas[i].grupos_datos) < Len(llamadas[i].grupos)
    /\ \E now \in Reloj :
          LET k == Len(llamadas[i].grupos_datos) + 1
              r == genera_datos_grupo(llamadas[i].estadillo,
                                      llamadas[i].grupos[k],
                                      color_manager_de(llamadas, i)[1],
                                      llamadas[i].user, now)
          IN  /\ now >= reloj
              /\ reloj' = now
              /\ llamadas' = [llamadas EXCEPT
                    ![i].cm = <<r.cm>>,
                    ![i].lecturas = Append(llamadas[i].lecturas, now),
                    ![i].grupos_datos =
                        IF r.error THEN llamadas[i].grupos_datos
                        ELSE Append(llamadas[i].grupos_datos, r.datos),
                    ![i].error = IF r.error THEN "IndexError" ELSE "",
                    ![i].pc = IF r.error THEN "error" ELSE "grupo"]
    /\ UNCHANGED <<fase, sectores_db, periodos, n_atc, grupos, cabecera,
                   clasif, cm, color_res, primer_color, vars_carga, color_per>>

\* "if user: mi_estadillo = generar_estadillo_personal(...)" and the return
LlamaGenerarEstadilloPersonal(i) ==
    /\ llamadas[i].pc = "grupo"
    /\ Len(llamadas[i].grupos_datos) = Len(llamadas[i].grupos)
    /\ LET r == generar_estadillo_personal(llamadas[i].grupos_datos,
                                           llamadas[i].user)
       IN  llamadas' = [llamadas EXCEPT
              ![i].vista = IF llamadas[i].user # 0 /\ ~r.error
                           THEN <<r.vista>> ELSE <<>>,
              ![i].error = IF llamadas[i].user # 0 /\ r.error
                           THEN "ValueError" ELSE "",
              ![i].pc = IF llamadas[i].user # 0 /\ r.error
                        THEN "error" ELSE "fin"]
    /\ UNCHANGED <<fase, sectores_db, periodos, n_atc, grupos, cabecera,
                   clasif, cm, color_res, primer_color, reloj, vars_carga, color_per>>

\* --------------------------------- specification of one presentation call
MaxPeriodosPres == 3

\* One iteration of procesar_controladores_y_sectores for a controller whose
\* first-page row declares the sectors of its labels
ProcesarControladorDeclarado ==
    /\ fase = "carga"
    /\ n_atc < MaxATC
    /\ \E horas \in (SUBSET HorasLocales) \ {{}} :
       \E textos \in TextosDe(horas) :
          LET sects == sectores_db \cup SectoresDeTextos(textos)
              nuevas == guardar_periodos(n_atc + 1, textos, 1, sects, periodos)
          IN  /\ Len(periodos) + Len(textos) <= MaxPeriodosPres
              /\ ~nuevas.error
              /\ sectores_db' = sects
              /\ periodos' = nuevas.filas
              /\ n_atc' = n_atc + 1
    /\ UNCHANGED <<fase, grupos, cabecera, clasif, cm, color_res, primer_color,
                   vars_pres, vars_carga, color_per>>

\* The route calls genera_datos_estadillo(estadillo, session, user) on the
\* stored roster; user 0 is None, and a user above n_atc has no period in it
GeneraDatosEstadillo ==
    /\ fase = "carga"
    /\ fase' = "presenta"
    /\ \E user \in 0..MaxATC :
          llamadas' = <<llamada_nueva(periodos, user)>>
    /\ UNCHANGED <<sectores_db, periodos, n_atc, grupos, cabecera, clasif, cm,
                   color_res, primer_color, reloj, vars_carga, color_per>>

NextPres ==
    \/ ProcesarControladorDeclarado
    \/ GeneraDatosEstadillo
    \/ \E i \in DOMAIN llamadas : LlamaIdentificaGrupos(i)
    \/ \E i \in DOMAIN llamadas : LlamaMarcaAnchor(i)
    \/ \E i \in DOMAIN llamadas : CreaColorManager(i)
    \/ \E i \in DOMAIN llamadas : LlamaGeneraDatosGrupo(i)
    \/ \E i \in DOMAIN llamadas : LlamaGenerarEstadilloPersonal(i)

SpecPres == Init /\ [][NextPres]_vars

\* ------------------------------------------------- claims on marca_anchor
\* call l has executed marca_anchor
Marcada(l) == l.pc \in {"color", "grupo", "fin", "error"}

\* the instant marca_anchor of call l read
now_anchor(l) == l.lecturas[1]

Activo(p, now) == p.hora_inicio <= now /\ now <= p.hora_fin

ActivosDe(g, now) == {p \in PeriodosGrupo(g) : Activo(p, now)}

ConAnchor(gs) == {k \in DOMAIN gs : gs[k].anchor # 0}

\* the period of group g that its anchor names
PeriodoAnchor(g) == CHOOSE p \in PeriodosGrupo(g) : p.id = g.anchor

\* the viewer of call l owns, among the periods of the groups, one that is
\* active at the instant marca_anchor read
ViewerActivo(l) ==
    /\ l.user # 0
    /\ \E k \in DOMAIN l.grupos : \E p \in ActivosDe(l.grupos[k], now_anchor(l)) :
          p.controlador = l.user

\* C11: when the viewer owns an active period (one of those marca_anchor
\* collects across the groups), after marca_anchor exactly one group has an
\* anchor, the viewer is a member of it, and its anchor is an active period
\* owned by the viewer, whatever the sizes of the other groups.
C11_PrioridadAnchor ==
    \A i \in DOMAIN llamadas :
        LET l == llamadas[i]
        IN  (Marcada(l) /\ ViewerActivo(l)) =>
                \E k \in DOMAIN l.grupos :
                    /\ ConAnchor(l.grupos) = {k}
                    /\ l.user \in Miembros(l.grupos[k])
                    /\ \E p \in ActivosDe(l.grupos[k], now_anchor(l)) :
                          /\ p.id = l.grupos[k].anchor
                          /\ p.controlador = l.user

\* the viewer has an active period in a group, and a larger group has an
\* active period of its own
C11_Testigo ==
    \E i \in DOMAIN llamadas :
        LET l == llamadas[i]
        IN  /\ Marcada(l)
            /\ ViewerActivo(l)
            /\ \E k \in DOMAIN l.grupos, j \in DOMAIN l.grupos :
                  /\ l.user \in Miembros(l.grupos[k])
                  /\ l.user \notin Miembros(l.grupos[j])
                  /\ Len(l.grupos[j].controladores) > Len(l.grupos[k].controladores)
                  /\ ActivosDe(l.grupos[j], now_anchor(l)) # {}

\* the groups of gs that have a period active at now
GruposActivos(gs, now) == {k \in DOMAIN gs : ActivosDe(gs[k], now) # {}}

\* C12: when no viewer is given or the viewer owns no active period, and
\* some period of some group is active, marca_anchor sets the anchor of a
\* group of the greatest size among the groups with an active period, and
\* that anchor is an active period of the group.
C12_AnchorFallback ==
    \A i \in DOMAIN llamadas :
        LET l == llamadas[i]
            conActivo == GruposActivos(l.grupos, now_anchor(l))
        IN  (Marcada(l) /\ ~ViewerActivo(l) /\ conActivo # {}) =>
                \E k \in conActivo :
                    /\ ConAnchor(l.grupos) = {k}
                    /\ \A j \in conActivo :
                          Len(l.grupos[j].controladores)
                             <= Len(l.grupos[k].controladores)
                    /\ PeriodoAnchor(l.grupos[k])
                          \in ActivosDe(l.grupos[k], now_anchor(l))

\* the rendered periods of call l
Renderizados(l) ==
    UNION {Rango(a.periodos) : a \in Rango(atcs_de_grupos(l.grupos_datos))}

\* C13: when no period of any group is active at the instant marca_anchor
\* reads, no group has an anchor after it and no rendered period has
\* scroll_anchor true, with or without a viewer.
C13_SinActivoSinAnchor ==
    \A i \in DOMAIN llamadas :
        LET l == llamadas[i]
        IN  (Marcada(l) /\ GruposActivos(l.grupos, now_anchor(l)) = {}) =>
                /\ ConAnchor(l.grupos) = {}
                /\ \A d \in Renderizados(l) : ~d.scroll_anchor

\* a call with a viewer has rendered all its groups, none of which had an
\* active period
C13_Testigo ==
    \E i \in DOMAIN llamadas :
        LET l == llamadas[i]
        IN  /\ l.pc = "fin"
            /\ l.user # 0
            /\ l.grupos # <<>>
            /\ l.user \in Miembros(l.grupos[1])
            /\ GruposActivos(l.grupos, now_anchor(l)) = {}
            /\ Renderizados(l) # {}

\* --------------------------------------- claims on the presentation call
\* call l has returned or raised
Terminada(l) == l.pc \in {"fin", "error"}

TienePeriodos(l) == \E k \in DOMAIN l.estadillo : l.estadillo[k].controlador = l.user

\* C14: for a call with a viewer, generar_estadillo_personal raises its
\* not-found ValueError when the viewer has no period in the roster, and
\* does not raise when the viewer has at least one period in the roster.
C14_ViewerNoEncontrado ==
    \A i \in DOMAIN llamadas :
        LET l == llamadas[i]
        IN  (Terminada(l) /\ l.user # 0) =>
                (l.error = "ValueError" <=> ~TienePeriodos(l))

C15_TestigoViewer ==
    \E i \in DOMAIN llamadas :
        LET l == llamadas[i]
        IN  l.estadillo = <<>> /\ l.pc = "error" /\ l.user # 0

\* C16: the period rendered with scroll_anchor true has status ACT, because
\* marca_anchor and genera_datos_grupo use one single instant.
C16_UnaSolaLectura ==
    \A i \in DOMAIN llamadas :
        \A d \in Renderizados(llamadas[i]) : d.scroll_anchor => d.activo = "ACT"

\* what C16 would give if the clock did not move during the call
C16_SiElRelojNoAvanza ==
    \A i \in DOMAIN llamadas :
        (\A a \in DOMAIN llamadas[i].lecturas, b \in DOMAIN llamadas[i].lecturas :
            llamadas[i].lecturas[a] = llamadas[i].lecturas[b]) =>
        \A d \in Renderizados(llamadas[i]) : d.scroll_anchor => d.activo = "ACT"

\* ------------------------------ specification of two presentation calls
\* The rosters of the estadillos the requests are for: one controller with
\* an executive period in one sector, as guardar_periodos stores it
EstadillosConc ==
    {guardar_periodos(1, <<[hora_inicio |-> HorasTabla[1], funcion |-> <<"E", s>>]>>,
                      1, {s}, <<>>).filas : s \in Sectores}

\* A request enters genera_datos_estadillo(estadillo, session, user) for one
\* of the stored estadillos while another call may be running; the model
\* has the two calls the independence claim is about
GeneraDatosEstadilloConcurrente ==
    /\ Len(llamadas) < 2
    /\ \E ps \in EstadillosConc, user \in 0..1 :
          llamadas' = Append(llamadas, llamada_nueva(ps, user))
    /\ UNCHANGED <<fase, sectores_db, periodos, n_atc, grupos, cabecera, clasif,
                   cm, color_res, primer_color, reloj, vars_carga, color_per>>

NextConc ==
    \/ GeneraDatosEstadilloConcurrente
    \/ \E i \in DOMAIN llamadas : LlamaIdentificaGrupos(i)
    \/ \E i \in DOMAIN llamadas : LlamaMarcaAnchor(i)
    \/ \E i \in DOMAIN llamadas : CreaColorManager(i)
    \/ \E i \in DOMAIN llamadas : LlamaGeneraDatosGrupo(i)
    \/ \E i \in DOMAIN llamadas : LlamaGenerarEstadilloPersonal(i)

SpecConc == Init /\ [][NextConc]_vars

\* ---------------------------------------------------- claim on concurrency
\* The list comprehension of genera_datos_estadillo run without interruption,
\* group k being rendered at the instant lecturas[k + 1]
RECURSIVE grupos_datos_solo(_, _, _, _, _, _)
grupos_datos_solo(ps, gs, m, user, lecturas, acc) ==
    IF Len(acc) = Len(gs) THEN [cm |-> m, grupos_datos |-> acc]
    ELSE LET k == Len(acc) + 1
             r == genera_datos_grupo(ps, gs[k], m, user, lecturas[k + 1])
         IN  grupos_datos_solo(ps, gs, r.cm, user, lecturas, Append(acc, r.datos))

\* What a call returns when it runs alone with the clock readings lecturas
Solo(ps, user, lecturas) ==
    LET gs == marca_anchor(identifica_grupos(ps), user, lecturas[1])
        r == grupos_datos_solo(ps, gs, nuevo_color_manager, user, lecturas, <<>>)
        v == generar_estadillo_personal(r.grupos_datos, user)
    IN  [grupos |-> gs, cm |-> <<r.cm>>, grupos_datos |-> r.grupos_datos,
         vista |-> IF user # 0 /\ ~v.error THEN <<v.vista>> ELSE <<>>]

\* C17: a call that has returned holds the groups, anchors, colours and view
\* that the same call gives when it runs alone with the same clock readings,
\* however its steps were interleaved with those of the other call.
C17_LlamadasIndependientes ==
    \A i \in DOMAIN llamadas :
        LET l == llamadas[i]
            s == Solo(l.estadillo, l.user, l.lecturas)
        IN  l.pc = "fin" =>
                /\ l.grupos = s.grupos
                /\ l.cm = s.cm
                /\ l.grupos_datos = s.grupos_datos
                /\ l.vista = s.vista

\* two calls for different rosters have returned, the second having read
\* the clock between two readings of the first
C17_Testigo ==
    /\ Len(llamadas) = 2
    /\ llamadas[1].pc = "fin"
    /\ llamadas[2].pc = "fin"
    /\ llamadas[1].estadillo # llamadas[2].estadillo
    /\ llamadas[1].lecturas[1] < llamadas[2].lecturas[1]
    /\ Ultimo(llamadas[2].lecturas) < Ultimo(llamadas[1].lecturas)

\* ------------------------------------------------------- claim on shades
\* Twice the HSL lightness of an RGB colour, on the scale 0 .. 510:
\* colorsys gives l = (max + min) / 2 of the channels divided by 255
Luminosidad2(c) == Maximo({c[1], c[2], c[3]}) + Minimo({c[1], c[2], c[3]})

\* C18: for every sector that has been given colours, the planner colour
\* differs from the executive colour and its HSL lightness is lower by 0.3
\* (153 of 510), and the colours get_color returned for the two roles of a
\* sector differ.
C18_TonoPlanificador ==
    /\ cm # <<>> =>
          \A w \in DOMAIN cm[1].sector_colors :
              LET ejecutivo == cm[1].sector_colors[w][1]
                  planificador == cm[1].sector_colors[w][2]
              IN  /\ planificador # ejecutivo
                  /\ Luminosidad2(planificador) < Luminosidad2(ejecutivo)
                  /\ (Luminosidad2(ejecutivo) - Luminosidad2(planificador)) * 10
                        = 3 * 510
    /\ \A w \in 1..MaxObservado :
          ({<<w, TRUE>>, <<w, FALSE>>} \subseteq DOMAIN primer_color) =>
              primer_color[<<w, TRUE>>] # primer_color[<<w, FALSE>>]

\* every hue of the palette has been given out, and a sector has been
\* requested in both roles
C18_Testigo ==
    /\ cm # <<>>
    /\ {cm[1].sector_colors[w][1] : w \in DOMAIN cm[1].sector_colors} = Rango(Paleta)
    /\ {<<1, TRUE>>, <<1, FALSE>>} \subseteq DOMAIN primer_color

\* ===================================================== upload of a document
\* The database is the record of its tables: estadillos (ids; the model has
\* one key (fecha, dependencia, turno)), atcs (names), servicios (the names
\* with a Servicio in the estadillo), sectores (names) and periodos (rows).
MaxATCDoc == 2
MaxSectorDoc == 1
MaxPeriodosDoc == 2
MaxSubidas == 3

\* The labels of the second page: rest, CAS, executive of a sector, and two
\* labels that are not ROLE-SECTOR ("X" and "E-1-2")
FuncionesDoc ==
    {<<"DESCANSO">>, <<"CAS">>, <<"X">>, <<"E", 1, 2>>}
    \cup {<<"E", s>> : s \in 1..MaxSectorDoc}

RECURSIVE TextosDoc(_)
TextosDoc(horas) ==
    IF horas = {} THEN {<<>>}
    ELSE LET h == CHOOSE x \in horas : \A y \in horas : x <= y
         IN  {<<[hora_inicio |-> h, funcion |-> f]>> \o t :
                 f \in FuncionesDoc, t \in TextosDoc(horas \ {h})}

\* Controller: the name, the sectors of its first-page row and its m periods
ControladoresDoc(nombre, m) ==
    UNION {{[nombre |-> nombre, sectores |-> d, periodos |-> t] :
               d \in {SectoresDeTextos(t), {}}} :
           t \in UNION {TextosDoc(horas) :
                           horas \in {h \in SUBSET HorasLocales :
                                         Cardinality(h) = m}}}

\* the lists of n controllers, named 1 .. n in the order of the first page,
\* with at most max periods in all and at least one each
RECURSIVE ListasControladores(_, _)
ListasControladores(n, max) ==
    IF n = 0 THEN {<<>>}
    ELSE UNION {{Append(l, c) : l \in ListasControladores(n - 1, max - m),
                                c \in ControladoresDoc(n, m)} :
                m \in 1..(max - (n - 1))}

\* EstadilloTexto: the names of jefes de sala, supervisores and TCAs (0 is an
\* empty name; 1 is also a controller) and the controllers
Documentos(n) ==
    {[mandos |-> <<0, 1, MaxATCDoc + 1>>, controladores |-> l] :
        l \in ListasControladores(n, MaxPeriodosDoc)}

\* guardar_atc_en_estadillo: find_user or create_user, and a Servicio unless
\* there is one; error is TRUE where it raises ValueError (empty name)
guardar_atc_en_estadillo(db, name) ==
    IF name = 0 THEN [error |-> TRUE, db |-> db]
    ELSE [error |-> FALSE,
          db |-> [db EXCEPT !.atcs = @ \cup {name},
                            !.servicios = @ \cup {name}]]

\* the loop over roles of guardar_datos_estadillo: empty names are filtered
RECURSIVE guardar_mandos(_, _)
guardar_mandos(db, nombres) ==
    IF nombres = <<>> THEN db
    ELSE LET r == guardar_atc_en_estadillo(db, Head(nombres))
         IN  IF Head(nombres) = 0 \/ r.error
             THEN guardar_mandos(db, Tail(nombres))
             ELSE guardar_mandos(r.db, Tail(nombres))

\* procesar_controladores_y_sectores from controller i on.  guardado is the
\* database as of the last commit, which is what remains when the ValueError
\* of guardar_periodos leaves the upload; guardar_periodos commits at its end
RECURSIVE procesar_controladores_y_sectores(_, _, _, _)
procesar_controladores_y_sectores(guardado, db, controladores, i) ==
    IF i > Len(controladores)
    THEN [error |-> FALSE, mensaje |-> <<>>, db |-> db]
    ELSE LET c == controladores[i]
             a == guardar_atc_en_estadillo(db, c.nombre)
             db2 == [a.db EXCEPT !.sectores = @ \cup c.sectores]
             r == guardar_periodos(c.nombre, c.periodos, 1, db2.sectores,
                                   db2.periodos)
             db3 == [db2 EXCEPT !.periodos = r.filas]
         IN  IF a.error
             THEN procesar_controladores_y_sectores(guardado, db, controladores, i + 1)
             ELSE IF r.error
             THEN [error |-> TRUE, mensaje |-> r.mensaje, db |-> guardado]
             ELSE procesar_controladores_y_sectores(db3, db3, controladores, i + 1)

\* guardar_datos_estadillo: the Estadillo is added; on IntegrityError the
\* existing one is deleted with its servicios and periodos (cascade) and the
\* new one added; then the roles and the controllers
guardar_datos_estadillo(db, doc, id) ==
    LET nuevo == IF db.estadillos = {}
                 THEN [db EXCEPT !.estadillos = {id}]
                 ELSE [db EXCEPT !.estadillos = {id}, !.servicios = {},
                                 !.periodos = <<>>]
    IN  procesar_controladores_y_sectores(nuevo, guardar_mandos(nuevo, doc.mandos),
                                          doc.controladores, 1)

\* procesa_estadillo(file, db_session) for a file that parses to doc
procesa_estadillo(db, doc, id) == guardar_datos_estadillo(db, doc, id)

\* the numbers of rows the re-upload test counts
Conteo(db) ==
    [estadillos |-> Cardinality(db.estadillos),
     servicios |-> Cardinality(db.servicios),
     periodos |-> Len(db.periodos),
     sectores |-> Cardinality(db.sectores),
     atcs |-> Cardinality(db.atcs)]

BaseDeDatos ==
    [estadillos |-> estadillos_db, atcs |-> atcs_db, servicios |-> servicios,
     sectores |-> sectores_db, periodos |-> periodos]

\* POST /upload_estadillo: procesa_estadillo on the uploaded file.  The first
\* upload takes any document; the later ones upload the same document again.
\* subida records the document, the number of uploads, the outcome of the
\* last one and the row counts after the first and after the last one.
ProcesaEstadillo ==
    /\ fase = "carga"
    /\ \/ subida = <<>>
       \/ subida # <<>> /\ subida[1].n < MaxSubidas
    /\ \E doc \in (IF subida = <<>>
                   THEN UNION {Documentos(k) : k \in 1..MaxATCDoc}
                   ELSE {subida[1].doc}) :
          LET n == IF subida = <<>> THEN 1 ELSE subida[1].n + 1
              r == procesa_estadillo(BaseDeDatos, doc, n)
          IN  /\ estadillos_db' = r.db.estadillos
              /\ atcs_db' = r.db.atcs
              /\ servicios' = r.db.servicios
              /\ sectores_db' = r.db.sectores
              /\ periodos' = r.db.periodos
              /\ subida' = <<[doc |-> doc, n |-> n, error |-> r.error,
                              mensaje |-> r.mensaje,
                              primero |-> IF subida = <<>> THEN Conteo(r.db)
                                          ELSE subida[1].primero,
                              ultimo |-> Conteo(r.db)]>>
    /\ UNCHANGED <<fase, n_atc, grupos, cabecera, clasif, cm, color_res,
                   primer_color, vars_pres, color_per>>

NextCarga == ProcesaEstadillo

SpecCarga == Init /\ [][NextCarga]_vars

\* ------------------------------------------------------ claims on uploads
\* C19: after the same document has been processed again without error, the
\* numbers of estadillos, servicios, periodos, sectores and ATCs are those
\* left by its first upload, and there is at most one estadillo for the key.
C19_ResubidaIdempotente ==
    /\ Cardinality(estadillos_db) <= 1
    /\ (subida # <<>> /\ subida[1].n >= 2 /\ ~subida[1].error) =>
           subida[1].ultimo = subida[1].primero

\* the labels of the document that guardar_periodos passes to
\* extrae_actividad_y_sector and that are neither CAS nor ROLE-SECTOR
RECURSIVE EtiquetasMalas(_)
EtiquetasMalas(textos) ==
    IF textos = <<>> THEN <<>>
    ELSE LET f == Head(textos).funcion
         IN  (IF f # <<"DESCANSO">> /\ f # <<"CAS">> /\ Len(f) # 2
              THEN <<f>> ELSE <<>>) \o EtiquetasMalas(Tail(textos))

RECURSIVE EtiquetasMalasDoc(_)
EtiquetasMalasDoc(controladores) ==
    IF controladores = <<>> THEN <<>>
    ELSE EtiquetasMalas(Head(controladores).periodos)
         \o EtiquetasMalasDoc(Tail(controladores))

\* C20: extrae_actividad_y_sector raises, naming the label, for exactly the
\* labels that are neither CAS nor two parts around one separator, and an
\* upload ends in that error, naming the first such label of the document,
\* exactly when the document has one: guardar_periodos does not swallow it.
C20_EtiquetaMalformada ==
    /\ \A f \in FuncionesDoc :
          LET ex == extrae_actividad_y_sector(f)
          IN  /\ ex.error <=> (f # <<"CAS">> /\ Len(f) # 2)
              /\ ex.error => ex.mensaje = f
    /\ subida # <<>> =>
          LET malas == EtiquetasMalasDoc(subida[1].doc.controladores)
          IN  /\ subida[1].error <=> malas # <<>>
              /\ subida[1].error => subida[1].mensaje = malas[1]

\* an upload has ended in the error for the label E-1-2 of its second
\* controller, after the periods of the first one were stored
C20_Testigo ==
    /\ subida # <<>>
    /\ subida[1].error
    /\ subida[1].mensaje = <<"E", 1, 2>>
    /\ periodos # <<>>

\* ======================================== a presentation call run to its end
\* The rosters of this specification have up to MaxATCVista controllers and
\* MaxPeriodosVista periods in all, with start times among the first
\* NumHorasVista of the table and sectors 1 .. MaxSectorVista
MaxATCVista == 2
MaxPeriodosVista == 4
NumHorasVista == 3
MaxSectorVista == 1

HorasVista == {HorasTabla[k] : k \in 1..NumHorasVista}

FuncionesVista ==
    {<<"DESCANSO">>} \cup {<<r, s>> : r \in {"E", "P"}, s \in 1..MaxSectorVista}

\* The rows of the document for one controller: strictly increasing start
\* times, one label each
RECURSIVE TextosVista(_)
TextosVista(horas) ==
    IF horas = {} THEN {<<>>}
    ELSE LET h == CHOOSE x \in horas : \A y \in horas : x <= y
         IN  {<<[hora_inicio |-> h, funcion |-> f]>> \o t :
                 f \in FuncionesVista, t \in TextosVista(horas \ {h})}

\* The instants the clock can show: before the roster, in the periods that
\* start at 07:30, 11:15 and 15:00, and after the end
RelojVista == {300, 400, 600, 800, 1300}

\* the readings of the clock of one call: one of marca_anchor and one of
\* each genera_datos_grupo, none earlier than the one before
LecturasVista(n) ==
    {l \in [1..n -> RelojVista] : \A k \in 1..(n - 1) : l[k] <= l[k + 1]}

\* genera_datos_estadillo(estadillo, session, user), from its entry to its
\* return or to the ValueError of generar_estadillo_personal; lecturas are
\* the instants the clock shows when marca_anchor and each genera_datos_grupo
\* read it
genera_datos_estadillo(ps, user, lecturas) ==
    LET gs == marca_anchor(identifica_grupos(ps), user, lecturas[1])
        r == grupos_datos_solo(ps, gs, nuevo_color_manager, user, lecturas, <<>>)
        v == generar_estadillo_personal(r.grupos_datos, user)
        falla == user # 0 /\ v.error
    IN  [estadillo |-> ps, user |-> user,
         pc |-> IF falla THEN "error" ELSE "fin",
         error |-> IF falla THEN "ValueError" ELSE "",
         grupos |-> gs, cm |-> <<r.cm>>, grupos_datos |-> r.grupos_datos,
         vista |-> IF user # 0 /\ ~v.error THEN <<v.vista>> ELSE <<>>,
         lecturas |-> lecturas]

\* One iteration of procesar_controladores_y_sectores for a controller whose
\* first-page row declares the sectors of its labels
ProcesarControladorVista ==
    /\ fase = "carga"
    /\ n_atc < MaxATCVista
    /\ \E horas \in (SUBSET HorasVista) \ {{}} :
       \E textos \in TextosVista(horas) :
          LET sects == sectores_db \cup SectoresDeTextos(textos)
              nuevas == guardar_periodos(n_atc + 1, textos, 1, sects, periodos)
          IN  /\ Len(periodos) + Len(textos) <= MaxPeriodosVista
              /\ ~nuevas.error
              /\ sectores_db' = sects
              /\ periodos' = nuevas.filas
              /\ n_atc' = n_atc + 1
    /\ UNCHANGED <<fase, grupos, cabecera, clasif, cm, color_res, primer_color,
                   vars_pres, vars_carga, color_per>>

\* GET /estadillo: genera_datos_estadillo(estadillo, session, user) on the
\* stored roster, from call to return; user 0 is None, and a user above n_atc
\* has no period in the roster
GeneraDatosEstadilloVista ==
    /\ fase = "carga"
    /\ fase' = "presenta"
    /\ \E user \in 0..MaxATCVista :
       \E lecturas \in LecturasVista(1 + Len(identifica_grupos(periodos))) :
          /\ llamadas' = <<genera_datos_estadillo(periodos, user, lecturas)>>
          /\ reloj' = Ultimo(lecturas)
    /\ UNCHANGED <<sectores_db, periodos, n_atc, grupos, cabecera, clasif, cm,
                   color_res, primer_color, vars_carga, color_per>>

NextVista ==
    \/ ProcesarControladorVista
    \/ GeneraDatosEstadilloVista

SpecVista == Init /\ [][NextVista]_vars

\* ------------------------------------------- claims on the personal view
\* the stored period that the k-th contextualized period of the viewer of
\* call l renders
PeriodoDelViewer(l, k) == periodos_por_controlador(l.estadillo, l.user)[k]

\* the periods of the group members other than the viewer that have the
\* window and the work-area of period q, a period with a work-area
Coincidentes(l, q) ==
    {p \in UNION {PeriodosGrupo(l.grupos[j]) : j \in DOMAIN l.grupos} :
        /\ p.controlador # l.user
        /\ q.sector # 0
        /\ p.sector = q.sector
        /\ p.hora_inicio = q.hora_inicio
        /\ p.hora_fin = q.hora_fin}

\* C21: in the view of a call that returned one, the colleague entries of
\* each period of the viewer are exactly the periods of the other
\* controllers, across all groups, with the same start, end and work-area;
\* a rest period of the viewer has no colleague entry, and the viewer is
\* never an entry of their own view.
C21_Companeros ==
    \A i \in DOMAIN llamadas :
        LET l == llamadas[i]
        IN  l.vista # <<>> =>
                \A k \in DOMAIN l.vista[1].periodos_contextualizados :
                    LET ctx == l.vista[1].periodos_contextualizados[k]
                        q == PeriodoDelViewer(l, k)
                    IN  /\ {<<c.nombre, c.actividad>> : c \in Rango(ctx.companeros)}
                              = {<<p.controlador, p.actividad>> :
                                    p \in Coincidentes(l, q)}
                        /\ Len(ctx.companeros) = Cardinality(Coincidentes(l, q))
                        /\ \A c \in Rango(ctx.companeros) : c.nombre # l.user

\* ------------------------------------------------- claims on the palette
\* the ten reference hues are the first ten entries of available_colors
HueDe(k) == Paleta[((k - 1) % 10) + 1]

\* C22: the k-th distinct sector requested of a ColorManager holds as
\* executive colour the reference hue at position ((k - 1) mod 10) + 1, for
\* every k, and a first request for a new sector never fails, however many
\* sectors were requested before.
C22_PaletaCiclica ==
    cm # <<>> =>
        /\ \A k \in DOMAIN cm[1].sector_colors :
              cm[1].sector_colors[k][1] = HueDe(k)
        /\ color_res # <<>> => ~color_res[1].error

\* what C22 gives for the sectors that did get a colour
C22_HuesAsignados ==
    cm # <<>> =>
        \A k \in DOMAIN cm[1].sector_colors :
            cm[1].sector_colors[k][1] = HueDe(k)

\* -------------------------------------------------- claim on the header
\* the distinct start instants of the periods of the members of group g, in
\* increasing order
InstantesDeInicio(g) == ordenados({p.hora_inicio : p \in PeriodosGrupo(g)})

\* C23: the header of a group has exactly one entry per distinct start
\* instant among the periods of all its members, in strictly increasing
\* order of start instant, and the duration of each entry but the last is
\* the number of minutes to the next distinct start instant, more than 0.
C23_CabeceraPorInstante ==
    cabecera # <<>> =>
        LET h == cabecera[1].horas
            inicios == InstantesDeInicio(grupos[cabecera[1].grupo])
        IN  /\ Len(h) = Len(inicios)
            /\ \A k \in DOMAIN h : h[k].hora_inicio = hora_local(inicios[k])
            /\ \A k \in 1..(Len(h) - 1) :
                  /\ inicios[k] < inicios[k + 1]
                  /\ h[k].duracion = inicios[k + 1] - inicios[k]
                  /\ h[k].duracion > 0

\* the header of a group of two members or more in which two periods start
\* at the same instant and others at a later one
C23_Testigo ==
    /\ cabecera # <<>>
    /\ Len(cabecera[1].horas) >= 2
    /\ LET g == grupos[cabecera[1].grupo]
       IN  /\ Len(g.controladores) >= 2
           /\ \E a \in PeriodosGrupo(g), b \in PeriodosGrupo(g) :
                 a.id # b.id /\ a.hora_inicio = b.hora_inicio

\* ------------------------------------------------ claim on rest periods
\* C24: _genera_color returns the fixed neutral colour for every rest period
\* (activity D), whatever its work-area, and leaves the ColorManager, its
\* assigned colours and its remaining palette, as it was.
C24_DescansoSinAsignar ==
    (color_per # <<>> /\ color_per[1].per.actividad = "D") =>
        /\ color_per[1].color = Blanco
        /\ ~color_per[1].error
        /\ cm[1] = color_per[1].antes
        /\ cm[1].sector_colors = color_per[1].antes.sector_colors
        /\ cm[1].available_colors = color_per[1].antes.available_colors

\* a rest period with a sector that has no colour yet has been rendered on a
\* ColorManager that has given out colours and has palette entries left
C24_Testigo ==
    /\ color_per # <<>>
    /\ color_per[1].per.actividad = "D"
    /\ color_per[1].per.sector # 0
    /\ color_per[1].per.sector \notin DOMAIN color_per[1].antes.sector_colors
    /\ color_per[1].antes.sector_colors # <<>>
    /\ color_per[1].antes.available_colors # <<>>

\* --------------------------------------------- claim on stored periods
\* C25: the periods that guardar_periodos stored for each controller are
\* contiguous and do not overlap: each one ends where the next stored
\* period of the controller starts, and the last one ends at the closing
\* time of its shift (15:00 local when it starts before 15:00, else 22:30).
C25_PeriodosContiguos ==
    /\ RosterContiguo(periodos)
    /\ \A k \in DOMAIN periodos : periodos[k].hora_inicio < periodos[k].hora_fin

\* ------------------------------------- claim on the shape of the view
\* the rows of the rendered groups of call l
FilasRenderizadas(l) ==
    UNION {Rango(l.grupos_datos[j].atcs) : j \in DOMAIN l.grupos_datos}

\* the viewer of call l has a row in the rendered groups
ViewerRenderizado(l) ==
    /\ l.user # 0
    /\ \E a \in FilasRenderizadas(l) : a.nombre = l.user

\* the rendered periods of the viewer of call l
FilaDelViewer(l) ==
    (CHOOSE a \in FilasRenderizadas(l) : a.nombre = l.user).periodos

\* the view of call l has one contextualized period per period of the
\* viewer, in the same order and with the same fields
FormaDeLaVista(l) ==
    LET ctx == l.vista[1].periodos_contextualizados
        fila == FilaDelViewer(l)
    IN  /\ Len(ctx) = Len(periodos_por_controlador(l.estadillo, l.user))
        /\ Len(ctx) = Len(fila)
        /\ \A k \in DOMAIN ctx :
              /\ ctx[k].periodo.hora_inicio = fila[k].hora_inicio
              /\ ctx[k].periodo.hora_fin = fila[k].hora_fin
              /\ ctx[k].periodo.actividad = fila[k].actividad
              /\ ctx[k].periodo.color = fila[k].color
              /\ ctx[k].periodo.duracion = fila[k].duracion
              /\ ctx[k].periodo.porcentaje = fila[k].porcentaje
              /\ ctx[k].periodo.activo = fila[k].activo
              /\ ctx[k].periodo.scroll_anchor = fila[k].scroll_anchor

\* C26: for a viewer who has a row in the rendered groups,
\* generar_estadillo_personal returns a view with exactly one contextualized
\* period per period of the viewer, in the same order, each with the start,
\* end, activity, colour, duration, percentage, status and anchor flag of the
\* viewer's rendered period, and the rendered groups are after the call what
\* they were before it.
C26_FormaDeLaVista ==
    [][\A i \in DOMAIN llamadas :
          (/\ llamadas[i].pc = "grupo"
           /\ Len(llamadas[i].grupos_datos) = Len(llamadas[i].grupos)
           /\ ViewerRenderizado(llamadas[i])
           /\ llamadas'[i].pc # "grupo")
          => /\ llamadas'[i].pc = "fin"
             /\ llamadas'[i].vista # <<>>
             /\ FormaDeLaVista(llamadas'[i])
             /\ llamadas'[i].grupos_datos = llamadas[i].grupos_datos]_vars

\* a call has returned the view of a viewer of the second group who has a
\* rest period and a period in a sector
C26_Testigo ==
    \E i \in DOMAIN llamadas :
        LET l == llamadas[i]
        IN  /\ l.pc = "fin"
            /\ l.vista # <<>>
            /\ Len(l.grupos) >= 2
            /\ l.user \in Miembros(l.grupos[2])
            /\ Len(l.vista[1].periodos_contextualizados) >= 2
            /\ \E k \in DOMAIN l.vista[1].periodos_contextualizados :
                  l.vista[1].periodos_contextualizados[k].periodo.actividad = <<>>

\* ------------------------------------------- claim on group connectivity
\* the sectors of the periods of controller c in the roster ps
SectoresDe(ps, c) ==
    {p.sector : p \in {q \in Rango(ps) : q.controlador = c /\ q.sector # 0}}

\* the controllers of M linked to those of S by a chain of controllers of M
\* in which consecutive ones share a sector
RECURSIVE EnlazadosEn(_, _, _)
EnlazadosEn(ps, M, S) ==
    LET mas == S \cup {c \in M : \E a \in S : SectoresDe(ps, a) \cap SectoresDe(ps, c) # {}}
    IN  IF mas = S THEN S ELSE EnlazadosEn(ps, M, mas)

\* C27: every group returned by identifica_grupos has a member, has a
\* non-empty sector set that is the union of the sector sets of its members,
\* and is connected: any two members are linked by a chain of members in
\* which consecutive controllers share a sector.
C27_GruposConexos ==
    fase = "grupos" =>
        \A i \in DOMAIN grupos :
            LET g == grupos[i]
            IN  /\ g.controladores # <<>>
                /\ g.sectores # {}
                /\ g.sectores = UNION {SectoresDe(periodos, c) : c \in Miembros(g)}
                /\ \A a \in Miembros(g) :
                      EnlazadosEn(periodos, Miembros(g), {a}) = Miembros(g)

\* a group of three members in which two share no sector and are linked
\* through the third
C27_Testigo ==
    /\ fase = "grupos"
    /\ \E i \in DOMAIN grupos :
          /\ Len(grupos[i].controladores) = 3
          /\ \E a \in Miembros(grupos[i]), b \in Miembros(grupos[i]) :
                /\ a # b
                /\ SectoresDe(periodos, a) \cap SectoresDe(periodos, b) = {}

\* ---------------------------------------------- claim on the one anchor
\* the positions <<group, row, period>> of the rendered periods of call l
\* that have scroll_anchor true
PosicionesAnchor(l) ==
    {pos \in UNION {UNION {{<<j, a, k>> :
                               k \in DOMAIN l.grupos_datos[j].atcs[a].periodos} :
                           a \in DOMAIN l.grupos_datos[j].atcs} :
                    j \in DOMAIN l.grupos_datos} :
        l.grupos_datos[pos[1]].atcs[pos[2]].periodos[pos[3]].scroll_anchor}

\* C28: after marca_anchor at most one group has an anchor; the anchor is a
\* period of a member of that group with start <= now <= end at the instant
\* marca_anchor read; and at most one rendered period of the whole result
\* has scroll_anchor true.
C28_UnSoloAnchor ==
    \A i \in DOMAIN llamadas :
        LET l == llamadas[i]
        IN  Marcada(l) =>
                /\ Cardinality(ConAnchor(l.grupos)) <= 1
                /\ \A k \in ConAnchor(l.grupos) :
                      \E p \in PeriodosGrupo(l.grupos[k]) :
                          /\ p.id = l.grupos[k].anchor
                          /\ p.controlador \in Miembros(l.grupos[k])
                          /\ Activo(p, now_anchor(l))
                /\ Cardinality(PosicionesAnchor(l)) <= 1

\* a call has rendered two groups that both had an active period at the
\* instant marca_anchor read, and one period is the anchor
C28_Testigo ==
    \E i \in DOMAIN llamadas :
        LET l == llamadas[i]
        IN  /\ l.pc = "fin"
            /\ Len(l.grupos) >= 2
            /\ Cardinality(GruposActivos(l.grupos, now_anchor(l))) >= 2
            /\ Cardinality(PosicionesAnchor(l)) = 1

\* ------------------------------------------ claim on the statuses of a row
\* the instant genera_datos_grupo read when it rendered group j of call l
now_grupo(l, j) == l.lecturas[j + 1]

\* now lies in the span of the roster ps
EnTramo(ps, now) ==
    /\ Minimo({p.hora_inicio : p \in Rango(ps)}) <= now
    /\ now <= Maximo({p.hora_fin : p \in Rango(ps)})

\* the statuses along a rendered row
Estados(fila) == [k \in DOMAIN fila.periodos |-> fila.periodos[k].activo]

\* e reads as a PAS, then b - a ACT, then FUT
Tramos(e, a, b) ==
    \A k \in DOMAIN e :
        e[k] = IF k <= a THEN "PAS" ELSE IF k <= b THEN "ACT" ELSE "FUT"

\* zero or more PAS, then at least one ACT, then zero or more FUT
PasActFut(e) == \E a \in 0..Len(e), b \in 0..Len(e) : a < b /\ Tramos(e, a, b)

\* zero or more PAS, then zero or more ACT, then zero or more FUT
PasActFutSinMinimo(e) ==
    \E a \in 0..Len(e), b \in 0..Len(e) : a <= b /\ Tramos(e, a, b)

\* the periods of a row are contiguous and in start order
FilaContigua(propios) ==
    /\ Seguidos(propios)
    /\ \A k \in DOMAIN propios : propios[k].hora_inicio < propios[k].hora_fin

\* C29 (as claimed): along the row of a controller whose periods are
\* contiguous and in start order the statuses read as zero or more PAS, then
\* at least one ACT, then zero or more FUT when now is inside the roster
\* span, and all are FUT when now is outside it.
C29_OrdenDeEstados ==
    \A i \in DOMAIN llamadas :
        LET l == llamadas[i]
        IN  \A j \in DOMAIN l.grupos_datos : \A a \in DOMAIN l.grupos_datos[j].atcs :
                LET propios == l.grupos[j].periodos[l.grupos[j].controladores[a]]
                    e == Estados(l.grupos_datos[j].atcs[a])
                IN  FilaContigua(propios) =>
                        IF EnTramo(l.estadillo, now_grupo(l, j))
                        THEN PasActFut(e)
                        ELSE \A k \in DOMAIN e : e[k] = "FUT"

\* C29 (amended): with now inside the roster span the statuses read as zero
\* or more PAS, then zero or more ACT, then zero or more FUT, and there is an
\* ACT exactly when now lies between the start of the controller's first
\* period and the end of its last one; with now outside the roster span
\* every status is FUT.
C29_OrdenDeEstadosEnFila ==
    \A i \in DOMAIN llamadas :
        LET l == llamadas[i]
        IN  \A j \in DOMAIN l.grupos_datos : \A a \in DOMAIN l.grupos_datos[j].atcs :
                LET propios == l.grupos[j].periodos[l.grupos[j].controladores[a]]
                    e == Estados(l.grupos_datos[j].atcs[a])
                    now == now_grupo(l, j)
                IN  FilaContigua(propios) =>
                        IF EnTramo(l.estadillo, now)
                        THEN /\ PasActFutSinMinimo(e)
                             /\ (\E k \in DOMAIN e : e[k] = "ACT")
                                   <=> (propios[1].hora_inicio <= now
                                        /\ now <= Ultimo(propios).hora_fin)
                        ELSE \A k \in DOMAIN e : e[k] = "FUT"

\* a rendered row reads PAS, ACT, FUT
C29_Testigo ==
    \E i \in DOMAIN llamadas :
        \E j \in DOMAIN llamadas[i].grupos_datos :
            \E a \in DOMAIN llamadas[i].grupos_datos[j].atcs :
                Estados(llamadas[i].grupos_datos[j].atcs[a]) = <<"PAS", "ACT", "FUT">>

\* ------------------------------------------------- claim on the marker
\* the fraction a is at most the fraction b (denominators above 0)
MenorOIgual(a, b) == a[1] * b[2] <= b[1] * a[2]

\* the instants at which the marker of the roster ps is compared: those the
\* clock can show and those around the start and the end of the roster
InstantesMarcador(ps) ==
    LET ini == Minimo({p.hora_inicio : p \in Rango(ps)})
        fin == Maximo({p.hora_fin : p \in Rango(ps)})
    IN  RelojVista \cup {ini - 1, ini, ini + 1, fin - 1, fin, fin + 1}

\* C30: the marker rendered for a group is 0 when now is before the start of
\* the roster, 100 when now is after its end, and otherwise 100 times the
\* elapsed fraction of the roster span; it lies within 0 .. 100, and
\* calcula_marcador is non-decreasing in now.
C30_Marcador ==
    \A i \in DOMAIN llamadas :
        LET l == llamadas[i]
        IN  \A j \in DOMAIN l.grupos_datos :
                LET m == l.grupos_datos[j].marcador
                    now == now_grupo(l, j)
                    ini == Minimo({p.hora_inicio : p \in Rango(l.estadillo)})
                    fin == Maximo({p.hora_fin : p \in Rango(l.estadillo)})
                IN  /\ m[2] > 0
                    /\ now < ini => m[1] = 0
                    /\ now > fin => m[1] = 100 * m[2]
                    /\ (ini <= now /\ now <= fin) =>
                          m[1] * (fin - ini) = 100 * (now - ini) * m[2]
                    /\ 0 <= m[1] /\ m[1] <= 100 * m[2]
                    /\ \A n1 \in InstantesMarcador(l.estadillo),
                          n2 \in InstantesMarcador(l.estadillo) :
                          n1 <= n2 =>
                              MenorOIgual(calcula_marcador(l.estadillo, n1),
                                          calcula_marcador(l.estadillo, n2))

\* a group has been rendered at an instant after the end of the roster, in a
\* call whose first reading of the clock was inside the roster span
C30_Testigo ==
    \E i \in DOMAIN llamadas :
        LET l == llamadas[i]
        IN  /\ l.grupos_datos # <<>>
            /\ EnTramo(l.estadillo, now_anchor(l))
            /\ ~EnTramo(l.estadillo, now_grupo(l, 1))
            /\ l.grupos_datos[1].marcador[1] = 100 * l.grupos_datos[1].marcador[2]

====
